---- MODULE Spec2Model ----
(***************************************************************************)
(* Equipment capability and reach engine of breakwater                     *)
(* (src/breakwater/equipment/equipment.py).                                *)
(*                                                                         *)
(* The state is the fleet of equipment objects (their attributes) and the  *)
(* record of the last completed call (its arguments, its outcome and the   *)
(* nested install calls it made).  One action per public method.           *)
(*                                                                         *)
(* Numbers are integers: every coordinate, elevation, mass and payload of  *)
(* the modelled inputs is integral, and the slopes (V, H) drawn have V in  *)
(* {0, 1}, so that H / V is either exact or a division by zero.            *)
(* An outcome is "True" or "False" (the returned boolean) or the name of   *)
(* the Python exception the call ends with.                                *)
(***************************************************************************)
EXTENDS Integers, Sequences, FiniteSets, TLC

VARIABLES eq, built, last

vars == <<eq, built, last>>

(***************************************************************************)
(* Bounds and program constants                                            *)
(***************************************************************************)
\* Depth at which the interpreter stops a runaway recursion (Python's
\* recursion limit, scaled down).
MaxDepth == 3

\* float("inf") and float("-inf")
Infinity == 1000
NegInfinity == -1000

\* default offset of Excavator and Crane, default margin_x of Barge
DefaultOffset == 3
DefaultMarginX == 2

(***************************************************************************)
(* Arithmetic helpers                                                      *)
(***************************************************************************)
Abs(n) == IF n < 0 THEN -n ELSE n

Min(S) == CHOOSE m \in S : \A n \in S : m <= n

Max(S) == CHOOSE m \in S : \A n \in S : m >= n

\* x- and y-coordinates of a section: zip(*section_coords)
XsOf(sec) == {sec[i][1] : i \in DOMAIN sec}

YsOf(sec) == {sec[i][2] : i \in DOMAIN sec}

\* max(section_coords)[0]: tuples compare lexicographically
XTop(sec) == Max(XsOf(sec))

Rect(x0, x1, y0, y1) == << <<x0, y0>>, <<x1, y0>>, <<x1, y1>>, <<x0, y1>> >>

(***************************************************************************)
(* Outcomes                                                                *)
(***************************************************************************)
Bool(b) == IF b THEN "True" ELSE "False"

IsBool(o) == o \in {"True", "False"}

(***************************************************************************)
(* Equipment.location_equipment                                            *)
(***************************************************************************)
\* variant of the end of install that returns what self.plot(...) returns
ReturnPlotResult(plot, install) == IF plot THEN "None" ELSE install

\* the end of every install: if plot: self.plot(...); return install.  The
\* plot methods draw a figure, assign no attribute and return None.
ReturnAfterPlot(plot, install) == install

\* variant in which land equipment mirrors for a section on the right side
location_equipment_mirror_right(sumargs, xpoint, sec, isBarge, y_iw, height, ymax) ==
  LET right == \A x \in XsOf(sec) : x >= 0 IN
  IF isBarge
  THEN [y |-> y_iw + height,
        x |-> IF right THEN xpoint + sumargs ELSE -xpoint - sumargs,
        flip |-> right]
  ELSE [y |-> ymax,
        x |-> IF right THEN xpoint - sumargs ELSE -xpoint + sumargs,
        flip |-> right]

location_equipment(sumargs, xpoint, sec, isBarge, y_iw, height, ymax) ==
  LET right == \A x \in XsOf(sec) : x >= 0 IN
  IF isBarge
  THEN [y |-> y_iw + height,
        x |-> IF right THEN xpoint + sumargs ELSE -xpoint - sumargs,
        flip |-> right]
  ELSE [y |-> ymax,
        x |-> IF right THEN xpoint - sumargs ELSE -xpoint + sumargs,
        flip |-> ~right]

(***************************************************************************)
(* Call records.  Every invocation of an install method is logged with the *)
(* callee's waterlvl and h_dry at the moment of the call, its arguments    *)
(* and the resolved equipment location.                                    *)
(***************************************************************************)
Frame(obj, e, q, loc, depth) ==
  [obj |-> obj, waterlvl |-> e.waterlvl, h_dry |-> e.h_dry,
   ymax |-> q.ymax, xmax_top |-> q.xmax_top, length_top |-> q.length_top,
   slope |-> q.slope, given |-> q.given, xloc |-> loc.x, yloc |-> loc.y,
   flip |-> loc.flip, depth |-> depth, plot |-> q.plot]

Allowed(e, grading) == grading \in DOMAIN e.design_type

(***************************************************************************)
(* Truck.install                                                           *)
(***************************************************************************)
\* self.level = max([(y_start - self.waterlvl), (ymax - self.waterlvl)])
TruckLevel(e, q) ==
  Max({Min(YsOf(q.sec)) - e.waterlvl, q.ymax - e.waterlvl})

\* variant that ignores the length of the layer's top
TruckDecisionNoLength(e, q) ==
  /\ Allowed(e, q.grading)
  /\ TruckLevel(e, q) >= e.h_dry

TruckDecision(e, q) ==
  /\ Allowed(e, q.grading)
  /\ TruckLevel(e, q) >= e.h_dry
  /\ q.length_top >= e.required_length

(***************************************************************************)
(* PlateFeeder.install                                                     *)
(***************************************************************************)
\* level is the supplied one or, when None, computed as for the Truck
FeederLevel(e, q) ==
  IF q.levelGiven THEN q.level
  ELSE Max({Min(YsOf(q.sec)) - e.waterlvl, q.ymax - e.waterlvl})

\* variant that ignores the lift height of the feeder
FeederDecisionNoTop(e, q) ==
  /\ Allowed(e, q.grading)
  /\ FeederLevel(e, q) >= e.h_dry

FeederDecision(e, q) ==
  /\ Allowed(e, q.grading)
  /\ FeederLevel(e, q) >= e.h_dry
  /\ Max(YsOf(q.sec)) <= FeederLevel(e, q) + e.top_installation

(***************************************************************************)
(* Vessel.install                                                          *)
(***************************************************************************)
\* variant that compares the keel level with the lowest point of the section
VesselDecisionLowest(e, q) ==
  /\ Allowed(e, q.grading)
  /\ e.waterlvl - (e.installation_waterdepth + e.ukc) >= Min(YsOf(q.sec))

VesselDecision(e, q) ==
  /\ Allowed(e, q.grading)
  /\ e.waterlvl - (e.installation_waterdepth + e.ukc) >= Max(YsOf(q.sec))

(***************************************************************************)
(* Excavator: loading chart, envelope and install                          *)
(*                                                                         *)
(* A loading chart is a function from a relative elevation to a row        *)
(* [x |-> sequence of reaches, w |-> sequence of payloads].                *)
(***************************************************************************)
\* Vertices of the loading polygon: per row the smallest reach, ascending in
\* elevation, then per row the largest reach, descending (two per row).
ChartPointCount(chart) == 2 * Cardinality(DOMAIN chart)

\* shapely's Polygon(points) raises ValueError for a ring of fewer than
\* three coordinate tuples.
PolygonBuilds(npoints) == npoints >= 3

\* Excavator.rotate_loading_chart: x - 2 * (x - xloc) - xloc
FlipReach(x, xloc) == x - 2 * (x - xloc) - xloc

\* the chart translated to the equipment location (and flipped)
chart_location(chart, xloc, yloc, flip) ==
  [k \in {r + yloc : r \in DOMAIN chart} |->
     LET row == chart[k - yloc] IN
     [x |-> [i \in DOMAIN row.x |->
               IF flip THEN FlipReach(row.x[i], xloc) ELSE row.x[i] + xloc],
      w |-> row.w]]

\* the reaches of a chart row
RowReaches(row) == {row.x[i] : i \in DOMAIN row.x}

\* the elements of a set of numbers in ascending order
RECURSIVE Ascending(_)
Ascending(S) ==
  IF S = {} THEN <<>> ELSE <<Min(S)>> \o Ascending(S \ {Min(S)})

\* the vertices handed to Polygon: per row the smallest reach, by ascending
\* elevation, followed by the largest reach per row, by descending elevation
ChartPoints(chart, xloc, yloc) ==
  LET ks == Ascending(DOMAIN chart)
      n == Len(ks)
  IN [i \in 1..n |-> <<Min(RowReaches(chart[ks[i]])) + xloc, ks[i] + yloc>>] \o
     [i \in 1..n |-> <<Max(RowReaches(chart[ks[n + 1 - i]])) + xloc,
                       ks[n + 1 - i] + yloc>>]

\* Excavator.rotate_loading_chart on the vertices: x - 2 * abs(x - xloc)
rotate_loading_chart(points, xloc) ==
  [i \in DOMAIN points |->
     <<points[i][1] - 2 * Abs(points[i][1] - xloc), points[i][2]>>]

\* the vertices of the loading polygon at the equipment location
loading_polygon(chart, xloc, yloc, flip) ==
  IF flip THEN rotate_loading_chart(ChartPoints(chart, xloc, yloc), xloc)
  ELSE ChartPoints(chart, xloc, yloc)

\* rows of the translated chart usable for section elevation d_y
RowsFor(tchart, d_y) ==
  IF d_y < 0 THEN {k \in DOMAIN tchart : k <= d_y}
  ELSE {k \in DOMAIN tchart : k >= d_y}

HasRow(tchart, d_y) == RowsFor(tchart, d_y) # {}

ChartRow(tchart, d_y) ==
  IF d_y < 0 THEN Max(RowsFor(tchart, d_y)) ELSE Min(RowsFor(tchart, d_y))

\* x-coordinate of the section at level y nearest the equipment
XLevel(sec, y, flip) ==
  LET xs == {sec[i][1] : i \in {j \in DOMAIN sec : sec[j][2] = y}} IN
  IF ~flip THEN Min(xs) ELSE Max(xs)

\* is there a reach at chart row k whose payload suffices and whose absolute
\* x is at least the absolute x of the section
Reaches(tchart, k, x, mass) ==
  \E i \in DOMAIN tchart[k].x :
     /\ tchart[k].w[i] >= mass
     /\ Abs(tchart[k].x[i]) - Abs(x) >= 0

AllReach(tchart, sec, flip, mass) ==
  \A y \in YsOf(sec) : Reaches(tchart, ChartRow(tchart, y), XLevel(sec, y, flip), mass)

\* the direct test without its standing-length condition
ExcavatorDecisionNoLength(e, q, tchart, flip) ==
  /\ Allowed(e, q.grading)
  /\ \/ Min(YsOf(q.sec)) - e.waterlvl >= e.h_dry
     \/ /\ q.ymax - e.waterlvl >= e.h_dry
        /\ AllReach(tchart, q.sec, flip, q.mass)

ExcavatorDecision(e, q, tchart, flip) ==
  /\ Allowed(e, q.grading)
  /\ \/ Min(YsOf(q.sec)) - e.waterlvl >= e.h_dry
     \/ /\ q.ymax - e.waterlvl >= e.h_dry
        /\ AllReach(tchart, q.sec, flip, q.mass)
        /\ q.length_top >= e.required_length

(***************************************************************************)
(* Slope fallback, shared by Excavator.install and Crane.install           *)
(***************************************************************************)
\* variant that falls back at every elevation
FallbackGuardAnyLevel(e, q, install) ==
  /\ ~install
  /\ q.slope # <<0, 0>>

FallbackGuard(e, q, install) ==
  /\ q.ymax > e.waterlvl + e.h_dry
  /\ ~install
  /\ q.slope # <<0, 0>>

\* the recursive call made with the caller's ymax
FallbackYmaxKept(e, q) == q.ymax

\* ymax passed to the recursive call
FallbackYmax(e, q) == e.waterlvl + e.h_dry

\* xmax_top - H/V * dy, for V # 0
FallbackXmaxTop(e, q) ==
  LET dy == q.ymax - (e.waterlvl + e.h_dry)
      V == q.slope[1]
      H == q.slope[2]
  IN q.xmax_top - (H \div V) * dy

FallbackQuery(e, q) ==
  LET x == FallbackXmaxTop(e, q) IN
  [q EXCEPT !.ymax = FallbackYmax(e, q),
            !.xmax_top = x,
            !.length_top = 2 * Abs(x),
            !.given = FALSE, !.xloc = 0, !.yloc = 0, !.plot = FALSE]

ExcavatorLoc(e, q) ==
  IF q.given THEN [x |-> q.xloc, y |-> q.yloc, flip |-> FALSE]
  ELSE location_equipment(e.offset, q.xmax_top, q.sec, FALSE, 0, 0, q.ymax)

RECURSIVE ExcavatorInstall(_, _, _, _)
ExcavatorInstall(obj, e, q, depth) ==
  LET loc == ExcavatorLoc(e, q)
      me == <<Frame(obj, e, q, loc, depth)>>
      tchart == chart_location(e.loading_chart, loc.x, loc.y, loc.flip)
  IN
  IF depth > MaxDepth THEN [outcome |-> "RecursionError", calls |-> <<>>]
  ELSE IF \/ ~PolygonBuilds(ChartPointCount(e.loading_chart))
          \/ ~PolygonBuilds(Len(q.sec))
  THEN [outcome |-> "ValueError", calls |-> me]
  ELSE IF \E y \in YsOf(q.sec) : ~HasRow(tchart, y)
  THEN [outcome |-> "False", calls |-> me]
  ELSE LET install == ExcavatorDecision(e, q, tchart, loc.flip) IN
       IF ~FallbackGuard(e, q, install)
       THEN [outcome |-> ReturnAfterPlot(q.plot, Bool(install)), calls |-> me]
       ELSE IF q.slope[1] = 0
       THEN [outcome |-> "ZeroDivisionError", calls |-> me]
       ELSE LET sub == ExcavatorInstall(obj, e, FallbackQuery(e, q), depth + 1) IN
            [outcome |-> IF IsBool(sub.outcome)
                         THEN ReturnAfterPlot(q.plot, sub.outcome)
                         ELSE sub.outcome,
             calls |-> me \o sub.calls]

(***************************************************************************)
(* Crane: radius/boom table and install                                    *)
(*                                                                         *)
(* The loading chart is a function from a radius to a function from a boom *)
(* length to the payload (an absent boom length is an empty cell).         *)
(***************************************************************************)
\* max(abs(np.array(x_section) - xloc_equip))
MaxDistX(sec, xloc) == Max({Abs(x - xloc) : x \in XsOf(sec)})

\* radii[radii >= max_dist_x]
RadiiFrom(chart, dist) == {r \in DOMAIN chart : r >= dist}

\* df[df >= mass] at the row of radius r: the boom lengths that carry mass
BoomsFor(chart, r, mass) == {b \in DOMAIN chart[r] : chart[r][b] >= mass}

\* variant that takes the largest tabulated radius that covers the distance
CraneSelectLargest(chart, dist, mass) ==
  LET none == [r |-> 0, l_boom |-> 0, M_max |-> NegInfinity] IN
  IF RadiiFrom(chart, dist) = {} THEN none
  ELSE LET r == Max(RadiiFrom(chart, dist))
           bs == BoomsFor(chart, r, mass)
       IN IF bs = {} THEN none
          ELSE [r |-> r, l_boom |-> Max(bs),
                M_max |-> Max({chart[r][b] : b \in bs})]

\* variant that takes the nearest tabulated radius short of the distance
CraneSelectBelow(chart, dist, mass) ==
  LET none == [r |-> 0, l_boom |-> 0, M_max |-> NegInfinity]
      short == {r \in DOMAIN chart : r <= dist}
  IN
  IF short = {} THEN none
  ELSE LET r == Max(short)
           bs == BoomsFor(chart, r, mass)
       IN IF bs = {} THEN none
          ELSE [r |-> r, l_boom |-> Max(bs),
                M_max |-> Max({chart[r][b] : b \in bs})]

\* the selected radius r, boom length l_boom and payload M_max
CraneSelect(chart, dist, mass) ==
  LET none == [r |-> 0, l_boom |-> 0, M_max |-> NegInfinity] IN
  IF RadiiFrom(chart, dist) = {} THEN none
  ELSE LET r == Min(RadiiFrom(chart, dist))
           bs == BoomsFor(chart, r, mass)
       IN IF bs = {} THEN none
          ELSE [r |-> r, l_boom |-> Max(bs),
                M_max |-> Max({chart[r][b] : b \in bs})]

\* h <= np.sqrt(l_boom ** 2 - r ** 2); the root of a negative number is nan,
\* and every comparison with nan is false
WithinHmax(h, l_boom, r) ==
  LET d == l_boom * l_boom - r * r IN
  /\ d >= 0
  /\ (h <= 0 \/ h * h <= d)

CraneLoc(e, q) ==
  IF q.given THEN [x |-> q.xloc, y |-> q.yloc, flip |-> FALSE]
  ELSE location_equipment(e.offset, q.xmax_top, q.sec, FALSE, 0, 0, q.ymax)

\* variant that leaves the vertical reach of the boom out of the test
CraneDecisionNoHeight(e, q, loc) ==
  LET sel == CraneSelect(e.loading_chart, MaxDistX(q.sec, loc.x), q.mass) IN
  /\ Allowed(e, q.grading)
  /\ \/ Min(YsOf(q.sec)) - e.waterlvl >= e.h_dry
     \/ /\ q.ymax - e.waterlvl >= e.h_dry
        /\ q.mass <= sel.M_max
        /\ q.length_top >= e.required_length

CraneDecision(e, q, loc) ==
  LET sel == CraneSelect(e.loading_chart, MaxDistX(q.sec, loc.x), q.mass)
      h == loc.y - Max(YsOf(q.sec))
  IN
  /\ Allowed(e, q.grading)
  /\ \/ Min(YsOf(q.sec)) - e.waterlvl >= e.h_dry
     \/ /\ q.ymax - e.waterlvl >= e.h_dry
        /\ q.mass <= sel.M_max
        /\ WithinHmax(h, sel.l_boom, sel.r)
        /\ q.length_top >= e.required_length

RECURSIVE CraneInstall(_, _, _, _)
CraneInstall(obj, e, q, depth) ==
  LET loc == CraneLoc(e, q)
      me == <<Frame(obj, e, q, loc, depth)>>
  IN
  IF depth > MaxDepth THEN [outcome |-> "RecursionError", calls |-> <<>>]
  ELSE LET install == CraneDecision(e, q, loc) IN
       IF ~FallbackGuard(e, q, install)
       THEN [outcome |-> ReturnAfterPlot(q.plot, Bool(install)), calls |-> me]
       ELSE IF q.slope[1] = 0
       THEN [outcome |-> "ZeroDivisionError", calls |-> me]
       ELSE LET sub == CraneInstall(obj, e, FallbackQuery(e, q), depth + 1) IN
            [outcome |-> IF IsBool(sub.outcome)
                         THEN ReturnAfterPlot(q.plot, sub.outcome)
                         ELSE sub.outcome,
             calls |-> me \o sub.calls]

(***************************************************************************)
(* Barge.install                                                           *)
(*                                                                         *)
(* b is the barge, inst its mounted instrument (self.instance).  The       *)
(* result carries the instrument as the call leaves it.                    *)
(***************************************************************************)
\* y_installation_waterdepth = self.waterlvl - self.installation_waterdepth
YInstallationWaterdepth(b) == b.waterlvl - b.installation_waterdepth

\* y_end >= y_installation_waterdepth - self.ukc
Clearance(b, sec) == Max(YsOf(sec)) >= YInstallationWaterdepth(b) - b.ukc

\* self.instance.waterlvl = self.waterlvl; self.instance.h_dry = 0
Reparent(b, inst) == [inst EXCEPT !.waterlvl = b.waterlvl, !.h_dry = 0]

\* the arguments every delegation to a Crane or Excavator shares
Delegated(b, q, xloc, yloc) ==
  [grading |-> q.grading, ymax |-> b.waterlvl + b.height, sec |-> q.sec,
   xmax_top |-> q.xmax_top, mass |-> q.mass, length_top |-> Infinity,
   slope |-> <<0, 0>>, given |-> TRUE, xloc |-> xloc, yloc |-> yloc,
   plot |-> q.plot]

\* location_equipment((y_end - y_iw) * H / V, margin_x, instance.offset, ...)
\* for V # 0
SlopeLocation(b, inst, q) ==
  LET V == q.slope[1]
      H == q.slope[2]
      y_iw == YInstallationWaterdepth(b)
      shift == ((Max(YsOf(q.sec)) - y_iw) * H) \div V
  IN location_equipment(shift + b.margin_x + inst.offset, XTop(q.sec), q.sec,
                        TRUE, y_iw, b.height, 0)

InstrumentInstall(iobj, inst, q) ==
  IF inst.kind = "Crane" THEN CraneInstall(iobj, inst, q, 0)
  ELSE ExcavatorInstall(iobj, inst, q, 0)

\* the block under the clearance test (lines 1529-1584)
BargeClearanceBlock(b, iobj, inst, q) ==
  IF ~(Clearance(b, q.sec) /\ inst.kind \in {"Crane", "Excavator"})
  THEN [outcome |-> "False", calls |-> <<>>, inst |-> inst]
  ELSE IF q.slope[1] = 0
  THEN [outcome |-> "ZeroDivisionError", calls |-> <<>>, inst |-> inst]
  ELSE LET loc == SlopeLocation(b, inst, q)
           inst1 == Reparent(b, inst)
           r == InstrumentInstall(iobj, inst1, Delegated(b, q, loc.x, loc.y))
       IN [outcome |-> r.outcome, calls |-> r.calls, inst |-> inst1]

\* install = True, then the crane's install is called for its plot only: its
\* return value is dropped, an exception it raises is not
CraneFreeOutcomeDriven(craneOutcome) == craneOutcome

CraneFreeOutcome(craneOutcome) ==
  IF IsBool(craneOutcome) THEN "True" ELSE craneOutcome

\* the PlateFeeder/Truck test and its else branch (lines 1585-1628), entered
\* with the instrument and the value of install the first block left
BargeKindBlock(b, iobj, inst, q, install) ==
  LET y_iw == YInstallationWaterdepth(b)
      deck == b.waterlvl + b.height
  IN
  CASE inst.kind = "Truck" ->
         \* Truck.install takes no keyword level and requires length_top
         [outcome |-> "TypeError", calls |-> <<>>, inst |-> inst]
    [] inst.kind = "PlateFeeder" ->
         LET fq == [grading |-> q.grading, ymax |-> deck, sec |-> q.sec,
                    levelGiven |-> TRUE, level |-> deck]
             fr == [ymax |-> deck, xmax_top |-> 0, length_top |-> 0,
                    slope |-> <<0, 0>>, given |-> FALSE, plot |-> FALSE]
         IN [outcome |-> Bool(FeederDecision(inst, fq)),
             calls |-> <<Frame(iobj, inst, fr,
                               [x |-> 0, y |-> deck, flip |-> FALSE], 0)>>,
             inst |-> inst]
    [] inst.kind = "Crane" ->
         LET xloc == (Min(XsOf(q.sec)) + Max(XsOf(q.sec))) \div 2
             r == CraneInstall(iobj, inst,
                               Delegated(b, q, xloc, y_iw + b.height), 0)
         IN [outcome |-> CraneFreeOutcome(r.outcome),
             calls |-> r.calls, inst |-> inst]
    [] inst.kind = "Excavator" ->
         LET inst1 == Reparent(b, inst)
             r == ExcavatorInstall(iobj, inst1,
                    Delegated(b, q, Max(XsOf(q.sec)), y_iw + b.height), 0)
         IN [outcome |-> r.outcome, calls |-> r.calls, inst |-> inst1]
    [] OTHER ->
         [outcome |-> Bool(install), calls |-> <<>>, inst |-> inst]

\* variant in which the delegation under the clearance test decides the call
BargeInstallClearanceDecides(b, iobj, inst, q) ==
  IF ~Allowed(inst, q.grading)
  THEN [outcome |-> "False", calls |-> <<>>, inst |-> inst]
  ELSE IF Clearance(b, q.sec) /\ inst.kind \in {"Crane", "Excavator"}
  THEN BargeClearanceBlock(b, iobj, inst, q)
  ELSE BargeKindBlock(b, iobj, inst, q, FALSE)

BargeInstall(b, iobj, inst, q) ==
  IF ~Allowed(inst, q.grading)
  THEN [outcome |-> "False", calls |-> <<>>, inst |-> inst]
  ELSE LET first == BargeClearanceBlock(b, iobj, inst, q) IN
       IF ~IsBool(first.outcome) THEN first
       ELSE LET second == BargeKindBlock(b, iobj, first.inst, q,
                                         first.outcome = "True")
            IN [outcome |-> second.outcome,
                calls |-> first.calls \o second.calls,
                inst |-> second.inst]

(***************************************************************************)
(* Equipment.get_price and Equipment.get_production_rate                   *)
(***************************************************************************)
HasRate(e, grading) == "production_rate" \in DOMAIN e.design_type[grading]

\* variant that leaves the design_type as it was
RateNotWritten(e, grading) == e.design_type

\* the design_type after get_production_rate: a missing rate is written as 1
RateDefaulted(e, grading) ==
  IF HasRate(e, grading) THEN e.design_type
  ELSE [e.design_type EXCEPT
          ![grading] = @ @@ [production_rate |-> 1]]

\* what get_production_rate ends with: the rate, or the raised UserWarning
RateOutcome(e, grading) ==
  IF HasRate(e, grading)
  THEN [outcome |-> "returned", value |-> e.design_type[grading].production_rate]
  ELSE [outcome |-> "UserWarning", value |-> 0]

(***************************************************************************)
(* The fleet: construction                                                 *)
(***************************************************************************)
Gradings == {"LMA_5_40", "LMA_40_200", "HMA_1000_3000"}

NoCost == [cost |-> 0, CO2 |-> 0]

\* Equipment.__init__
Equipment(kind, design_type, waterlvl) ==
  [kind |-> kind, design_type |-> design_type, waterlvl |-> waterlvl,
   mobilisation_cost |-> NoCost, equipment_cost |-> NoCost]

Truck(design_type, waterlvl, required_length, h_dry) ==
  Equipment("Truck", design_type, waterlvl) @@
  [h_dry |-> h_dry, required_length |-> required_length, level |-> <<>>]

PlateFeeder(design_type, top_installation, waterlvl, h_dry) ==
  Equipment("PlateFeeder", design_type, waterlvl) @@
  [h_dry |-> h_dry, top_installation |-> top_installation]

Excavator(design_type, waterlvl, loading_chart, h_dry, required_length) ==
  Equipment("Excavator", design_type, waterlvl) @@
  [loading_chart |-> loading_chart, h_dry |-> h_dry,
   offset |-> DefaultOffset, required_length |-> required_length]

Crane(design_type, waterlvl, required_length, loading_chart, h_dry) ==
  Equipment("Crane", design_type, waterlvl) @@
  [loading_chart |-> loading_chart, h_dry |-> h_dry,
   offset |-> DefaultOffset, required_length |-> required_length]

Vessel(design_type, waterlvl, installation_waterdepth) ==
  Equipment("Vessel", design_type, waterlvl) @@
  [installation_waterdepth |-> installation_waterdepth, ukc |-> 0]

\* Barge.__init__: the costs add up and a new design_type is derived from the
\* instrument's
Barge(waterlvl, iobj, other, depth, height, downtime_production, extra_cost, mobilisation_cost, equipment_cost) ==
  [kind |-> "Barge", instance |-> iobj, waterlvl |-> waterlvl,
   mobilisation_cost |->
     [cost |-> mobilisation_cost.cost + other.mobilisation_cost.cost,
      CO2 |-> mobilisation_cost.CO2 + other.mobilisation_cost.CO2],
   equipment_cost |->
     [cost |-> equipment_cost.cost + other.equipment_cost.cost,
      CO2 |-> equipment_cost.CO2 + other.equipment_cost.CO2],
   installation_waterdepth |-> depth, height |-> height,
   margin_x |-> DefaultMarginX, ukc |-> 0,
   design_type |->
     [g \in DOMAIN other.design_type |->
        [cost |-> other.design_type[g].cost + extra_cost,
         CO2 |-> other.design_type[g].CO2,
         production_rate |->
           other.design_type[g].production_rate - downtime_production]]]

\* the loop of Barge.__init__ reads dict['cost'], dict['CO2'] and
\* dict['production_rate'] of every grading of the instrument
HasFigures(other) ==
  \A g \in DOMAIN other.design_type :
     {"cost", "CO2", "production_rate"} \subseteq DOMAIN other.design_type[g]

\* what Barge(...) ends with: the new barge, or the KeyError of the loop
BargeInitOutcome(other) == IF HasFigures(other) THEN "returned" ELSE "KeyError"

\* what get_price ends with
PriceOutcome(e, grading, key) ==
  IF "cost" \in DOMAIN e.design_type[grading]
  THEN IF key \in DOMAIN e.design_type[grading]
       THEN [outcome |-> "returned", value |-> e.design_type[grading][key]]
       ELSE [outcome |-> "KeyError", value |-> 0]
  ELSE IF e.design_type[grading].production_rate = 0
       THEN [outcome |-> "ZeroDivisionError", value |-> 0]
       ELSE [outcome |-> "returned",
             value |-> e.equipment_cost[key] \div
                       e.design_type[grading].production_rate]

(***************************************************************************)
(* The fleet of one design run                                             *)
(***************************************************************************)
\* every mounted instrument carries cost, CO2 and production_rate
InstrumentDesign ==
  [g \in {"LMA_5_40"} |-> [cost |-> 10, CO2 |-> 2, production_rate |-> 5]]

\* a price without a rate for one grading, a rate without a price for another
VesselDesign ==
  ("LMA_5_40" :> [cost |-> 7, CO2 |-> 3]) @@
  ("LMA_40_200" :> [production_rate |-> 4])

ExcavatorChart ==
  (-6 :> [x |-> <<4, 6>>, w |-> <<10, 6>>]) @@
  (0 :> [x |-> <<5>>, w |-> <<10>>]) @@
  (2 :> [x |-> <<5, 7>>, w |-> <<10, 6>>])

\* a chart of a single elevation row
SingleRowChart == (0 :> [x |-> <<5>>, w |-> <<10>>])

CraneChart ==
  (4 :> ((5 :> 12) @@ (8 :> 10))) @@
  (8 :> (10 :> 9))

\* a crane chart whose payload grows with the radius, and whose largest
\* radius is shorter than the farthest section
RisingChart == (4 :> (5 :> 9)) @@ (7 :> (10 :> 12))

\* the fleets a run is constructed with: land water level, dry margin of the
\* land equipment, water level of the barges, excavator loading chart,
\* required standing length and crane loading chart
Configurations ==
  <<[wl |-> 0, hd |-> 0, bwl |-> 0, chart |-> ExcavatorChart, rl |-> 2,
     crane |-> CraneChart],
    [wl |-> 0, hd |-> 2, bwl |-> 1, chart |-> ExcavatorChart, rl |-> 2,
     crane |-> CraneChart],
    [wl |-> 0, hd |-> 0, bwl |-> 0, chart |-> SingleRowChart, rl |-> 0,
     crane |-> RisingChart]>>

\* height of the barge that carries instrument i
BargeHeight(i) == IF i = "truck" THEN 4 ELSE 2

Land == {"truck", "feeder", "excavator", "crane"}

BargeOf(i) == "barge_" \o i

Barges == {BargeOf(i) : i \in Land}

Objects == Land \cup Barges \cup {"vessel"}

Fleet(c) ==
  LET land == ("truck" :> Truck(InstrumentDesign, c.wl, c.rl, c.hd)) @@
              ("feeder" :> PlateFeeder(InstrumentDesign, 2, c.wl, c.hd)) @@
              ("excavator" :>
                 Excavator(InstrumentDesign, c.wl, c.chart, c.hd, c.rl)) @@
              ("crane" :> Crane(InstrumentDesign, c.wl, c.rl, c.crane, c.hd))
  IN [o \in Objects |->
        IF o \in Land THEN land[o]
        ELSE IF o = "vessel" THEN Vessel(VesselDesign, c.wl, 3)
        ELSE LET i == CHOOSE j \in Land : BargeOf(j) = o IN
             Barge(c.bwl, i, land[i], 3, BargeHeight(i), 1, 4, NoCost, NoCost)]

\* a design_type that leaves the production rate to the price
UnratedDesign == [g \in {"LMA_5_40"} |-> [cost |-> 10, CO2 |-> 2]]

\* the cost tables of a platform and of an instrument that have a price
PlatformCost == [cost |-> 6, CO2 |-> 1]

InstrumentCost == [cost |-> 3, CO2 |-> 2]

\* instruments a new Barge is built on, besides those of the fleet
CostedCrane ==
  [Crane(InstrumentDesign, 0, 2, CraneChart, 0) EXCEPT
     !.mobilisation_cost = InstrumentCost, !.equipment_cost = InstrumentCost]

UnratedFeeder == PlateFeeder(UnratedDesign, 2, 0, 0)

(***************************************************************************)
(* Inputs                                                                  *)
(***************************************************************************)
Sections ==
  {Rect(0, 4, 0, 2), Rect(-4, 0, 0, 2), Rect(0, 4, -4, -2),
   Rect(2, 4, -6, -4), Rect(6, 8, 0, 2), Rect(0, 4, 2, 4)}

QueryGradings == {"LMA_5_40", "HMA_1000_3000"}

Ymaxs == {0, 2, 3}

XmaxTops == {3, 4}

Masses == {8, 12}

LengthTops == {1, 6}

Slopes == {<<0, 0>>, <<1, 2>>, <<0, 1>>}

ReachQueries ==
  [grading : QueryGradings, ymax : Ymaxs, sec : Sections, xmax_top : XmaxTops,
   mass : Masses, length_top : LengthTops, slope : Slopes,
   given : {FALSE}, xloc : {0}, yloc : {0}, plot : BOOLEAN]

TruckQueries ==
  [grading : QueryGradings, ymax : Ymaxs, sec : Sections,
   length_top : LengthTops, plot : BOOLEAN]

FeederQueries ==
  [grading : QueryGradings, ymax : Ymaxs, sec : Sections,
   levelGiven : {FALSE}, level : {0}, plot : BOOLEAN]
  \cup
  [grading : QueryGradings, ymax : Ymaxs, sec : Sections,
   levelGiven : {TRUE}, level : {0, 2}, plot : BOOLEAN]

VesselQueries == [grading : QueryGradings, sec : Sections, plot : BOOLEAN]

BargeQueries ==
  [grading : QueryGradings, slope : Slopes, sec : Sections,
   xmax_top : {3}, mass : Masses, plot : BOOLEAN]

(***************************************************************************)
(* State machine                                                           *)
(***************************************************************************)
Idle ==
  [op |-> "idle", obj |-> "", outcome |-> "", value |-> 0, calls |-> <<>>]

TypeOK ==
  /\ DOMAIN eq = Objects
  /\ last.op \in {"idle", "install", "get_price", "get_production_rate",
                  "__init__"}

Init ==
  /\ \E i \in DOMAIN Configurations : eq = Fleet(Configurations[i])
  /\ built = eq
  /\ last = Idle

Done(op, obj, q, r) ==
  [op |-> op, obj |-> obj, q |-> q, outcome |-> r.outcome, value |-> r.value,
   calls |-> r.calls, pre |-> eq]

\* what an install call on object o of a fleet f with the arguments q ends
\* with, the calls it makes and the fleet it leaves (the install actions
\* below, as a function of the fleet)
InstallOf(f, o, q) ==
  CASE o = "truck" ->
         [outcome |-> ReturnAfterPlot(q.plot, Bool(TruckDecision(f[o], q))),
          calls |-> <<>>,
          eq |-> [f EXCEPT ![o].level = <<TruckLevel(f[o], q)>>]]
    [] o = "feeder" ->
         [outcome |-> ReturnAfterPlot(q.plot, Bool(FeederDecision(f[o], q))),
          calls |-> <<>>, eq |-> f]
    [] o = "vessel" ->
         [outcome |-> ReturnAfterPlot(q.plot, Bool(VesselDecision(f[o], q))),
          calls |-> <<>>, eq |-> f]
    [] o = "excavator" -> ExcavatorInstall(o, f[o], q, 0) @@ [eq |-> f]
    [] o = "crane" -> CraneInstall(o, f[o], q, 0) @@ [eq |-> f]
    [] OTHER ->
         LET i == f[o].instance
             r == BargeInstall(f[o], i, f[i], q)
         IN [outcome |-> r.outcome, calls |-> r.calls,
             eq |-> [f EXCEPT ![i] = r.inst]]

CallTruckInstall ==
  /\ last.op = "idle"
  /\ \E q \in TruckQueries :
       LET e == eq["truck"] IN
       /\ eq' = [eq EXCEPT !["truck"].level = <<TruckLevel(e, q)>>]
       /\ last' = Done("install", "truck", q,
                       [outcome |-> ReturnAfterPlot(q.plot, Bool(TruckDecision(e, q))),
                        value |-> 0, calls |-> <<>>])
  /\ UNCHANGED built

CallFeederInstall ==
  /\ last.op = "idle"
  /\ \E q \in FeederQueries :
       last' = Done("install", "feeder", q,
                    [outcome |-> ReturnAfterPlot(q.plot, Bool(FeederDecision(eq["feeder"], q))),
                     value |-> 0, calls |-> <<>>])
  /\ UNCHANGED <<eq, built>>

CallVesselInstall ==
  /\ last.op = "idle"
  /\ \E q \in VesselQueries :
       last' = Done("install", "vessel", q,
                    [outcome |-> ReturnAfterPlot(q.plot, Bool(VesselDecision(eq["vessel"], q))),
                     value |-> 0, calls |-> <<>>])
  /\ UNCHANGED <<eq, built>>

CallExcavatorInstall ==
  /\ last.op = "idle"
  /\ \E q \in ReachQueries :
       LET r == ExcavatorInstall("excavator", eq["excavator"], q, 0) IN
       last' = Done("install", "excavator", q, r @@ [value |-> 0])
  /\ UNCHANGED <<eq, built>>

CallCraneInstall ==
  /\ last.op = "idle"
  /\ \E q \in ReachQueries :
       LET r == CraneInstall("crane", eq["crane"], q, 0) IN
       last' = Done("install", "crane", q, r @@ [value |-> 0])
  /\ UNCHANGED <<eq, built>>

CallBargeInstall ==
  /\ last.op = "idle"
  /\ \E b \in Barges, q \in BargeQueries :
       LET i == eq[b].instance
           r == BargeInstall(eq[b], i, eq[i], q)
       IN /\ eq' = [eq EXCEPT ![i] = r.inst]
          /\ last' = Done("install", b, q, r @@ [value |-> 0])
  /\ UNCHANGED built

\* Barge(name, waterlvl, other, ...): a new platform is built on an
\* instrument; made is the new object, other the instrument afterwards
CallBargeInit ==
  /\ last.op = "idle"
  /\ \E other \in {eq[i] : i \in Land} \cup {CostedCrane, UnratedFeeder} :
     \E own \in {NoCost, PlatformCost} :
       last' = Done("__init__", "barge",
                    [other |-> other, own |-> own, downtime_production |-> 1,
                     extra_cost |-> 4],
                    [outcome |-> BargeInitOutcome(other), value |-> 0,
                     calls |-> <<>>])
               @@ [made |-> IF HasFigures(other)
                            THEN Barge(0, "other", other, 3, 2, 1, 4, own, own)
                            ELSE <<>>,
                   other |-> other]
  /\ UNCHANGED <<eq, built>>

CallGetProductionRate ==
  /\ last.op = "idle"
  /\ \E o \in Objects : \E g \in DOMAIN eq[o].design_type :
       /\ eq' = [eq EXCEPT ![o].design_type = RateDefaulted(eq[o], g)]
       /\ last' = Done("get_production_rate", o, [grading |-> g],
                       RateOutcome(eq[o], g) @@ [calls |-> <<>>])
  /\ UNCHANGED built

CallGetPrice ==
  /\ last.op = "idle"
  /\ \E o \in Objects : \E g \in DOMAIN eq[o].design_type :
     \E key \in {"cost", "CO2"} :
       last' = Done("get_price", o, [grading |-> g, key |-> key],
                    PriceOutcome(eq[o], g, key) @@ [calls |-> <<>>])
  /\ UNCHANGED <<eq, built>>

\* the design loop takes the outcome of the call and goes on
Collect ==
  /\ last.op # "idle"
  /\ last' = Idle
  /\ UNCHANGED <<eq, built>>

Next ==
  \/ CallTruckInstall
  \/ CallFeederInstall
  \/ CallVesselInstall
  \/ CallExcavatorInstall
  \/ CallCraneInstall
  \/ CallBargeInstall
  \/ CallBargeInit
  \/ CallGetProductionRate
  \/ CallGetPrice
  \/ Collect

Spec == Init /\ [][Next]_vars

(***************************************************************************)
(* Properties                                                              *)
(***************************************************************************)
Installed(o) == last.op = "install" /\ last.obj = o

\* the equipment whose design_type decides the grading of the last call
\* (for a Barge its mounted instrument), as it was when the call began
Owner ==
  IF last.obj \in Barges THEN last.pre[last.pre[last.obj].instance]
  ELSE last.pre[last.obj]

\* the barge of the last call and its instrument, as they were when it began
TheBarge == last.pre[last.obj]

TheInstrument == last.pre[TheBarge.instance]

\* C1: for every equipment kind and every grading class that is not a key of
\* the capability mapping (for a Barge the mounted instrument's), install
\* returns false, whatever the section, mass, slope, built elevation and
\* top length.
C1_AbsentGradingIsFalse ==
  (last.op = "install" /\ ~Allowed(Owner, last.q.grading))
     => last.outcome = "False"

\* C2: after Barge.install returns, the mounted instrument's waterlvl and
\* h_dry equal the values they had immediately before the call.
C2_BargeRestoresInstrument ==
  (last.op = "install" /\ last.obj \in Barges)
     => /\ eq[TheBarge.instance].waterlvl = TheInstrument.waterlvl
        /\ eq[TheBarge.instance].h_dry = TheInstrument.h_dry

\* C3: the result of a direct install query on the Excavator or the Crane is
\* the one the instrument gives as constructed, whether or not a
\* Barge.install on the barge wrapping it was executed earlier.
C3_NoCrossContamination ==
  /\ Installed("excavator")
       => last.outcome =
            ExcavatorInstall("excavator", built["excavator"], last.q, 0).outcome
  /\ Installed("crane")
       => last.outcome = CraneInstall("crane", built["crane"], last.q, 0).outcome

\* C4: when the grading is allowed and the section top satisfies the
\* clearance condition, the value Barge.install returns for a mounted Crane
\* or Excavator is the value of the instrument's install called at the
\* slope-adjusted location, with length_top infinite and slope (0, 0).
C4_ClearanceDelegates ==
  (/\ last.op = "install"
   /\ last.obj \in {"barge_crane", "barge_excavator"}
   /\ Allowed(Owner, last.q.grading)
   /\ Clearance(TheBarge, last.q.sec)
   /\ last.q.slope[1] # 0)
     => LET loc == SlopeLocation(TheBarge, TheInstrument, last.q) IN
        last.outcome =
          InstrumentInstall(TheBarge.instance, Reparent(TheBarge, TheInstrument),
                            Delegated(TheBarge, last.q, loc.x, loc.y)).outcome

\* C5 as stated: for a Barge with a mounted Crane, whenever the clearance
\* condition is not met, Barge.install returns true.
C5_NoClearanceIsTrue ==
  (Installed("barge_crane") /\ ~Clearance(TheBarge, last.q.sec))
     => last.outcome = "True"

\* C5 (amended): for a Barge with a mounted Crane, whenever the grading is in
\* the crane's capability mapping and the clearance condition is not met,
\* Barge.install returns true whatever the mass and the section; the crane's
\* install is invoked once and its return value does not drive the decision.
C5_AllowedNoClearanceIsTrue ==
  (/\ Installed("barge_crane")
   /\ Allowed(Owner, last.q.grading)
   /\ ~Clearance(TheBarge, last.q.sec))
     => /\ last.outcome = "True"
        /\ Len(last.calls) = 1
        /\ last.calls[1].obj = "crane"

\* the crane's own answer in the branch without clearance
CraneOwnOutcome ==
  CraneInstall("crane", TheInstrument,
    Delegated(TheBarge, last.q,
              (Min(XsOf(last.q.sec)) + Max(XsOf(last.q.sec))) \div 2,
              YInstallationWaterdepth(TheBarge) + TheBarge.height), 0).outcome

C5_Witness ==
  /\ Installed("barge_crane")
  /\ Allowed(Owner, last.q.grading)
  /\ ~Clearance(TheBarge, last.q.sec)
  /\ CraneOwnOutcome = "False"
  /\ last.outcome = "True"

\* C6: a Barge wrapping a Truck, deck at waterlvl + height = 5, section top
\* at y = 4, grading allowed: the call delegates to Truck.install and
\* completes with a boolean.
C6_BargeTruckDecides ==
  (/\ Installed("barge_truck")
   /\ Allowed(Owner, last.q.grading)
   /\ TheBarge.waterlvl + TheBarge.height = 5
   /\ Max(YsOf(last.q.sec)) = 4)
     => IsBool(last.outcome)

\* C7: every time Barge.install invokes the mounted instrument's install, the
\* instrument's waterlvl equals the Barge's waterlvl and its h_dry is 0 at
\* the moment of that call.
C7_DelegatesReparented ==
  (last.op = "install" /\ last.obj \in Barges)
     => \A i \in DOMAIN last.calls :
           /\ last.calls[i].waterlvl = TheBarge.waterlvl
           /\ last.calls[i].h_dry = 0

\* C8: get_production_rate for a grading whose entry has no production_rate
\* does not abort: the caller obtains the rate 1 from that call.
C8_MissingRateReturnsOne ==
  (/\ last.op = "get_production_rate"
   /\ ~HasRate(last.pre[last.obj], last.q.grading))
     => /\ last.outcome = "returned"
        /\ last.value = 1

\* C9: the slope-fallback recursion of Excavator.install and Crane.install
\* terminates: every recursive call has a strictly lower working elevation
\* (ymax) than its caller, a call whose ymax is at or below waterlvl + h_dry
\* makes no recursive call, and no call runs into the recursion limit.
C9_FallbackDescends ==
  last.op = "install"
     => /\ last.outcome # "RecursionError"
        /\ \A i \in 1 .. Len(last.calls) - 1 :
              last.calls[i + 1].depth > last.calls[i].depth
                 => /\ last.calls[i + 1].ymax < last.calls[i].ymax
                    /\ last.calls[i].ymax >
                         last.calls[i].waterlvl + last.calls[i].h_dry

\* a query on built elevation at or above the margin whose direct test
\* failed and which fell back down a non-zero slope
C9_Witness ==
  /\ last.op = "install"
  /\ last.obj \in {"excavator", "crane"}
  /\ last.q.slope # <<0, 0>>
  /\ last.q.ymax >= Owner.waterlvl + Owner.h_dry
  /\ Len(last.calls) = 2
  /\ last.calls[2].depth = 1
  /\ IsBool(last.outcome)

\* the direct test of Excavator.install on the last query, in the claim's
\* terms
ExcavatorTerms ==
  LET e == last.pre["excavator"]
      q == last.q
      loc == ExcavatorLoc(e, q)
      tchart == chart_location(e.loading_chart, loc.x, loc.y, loc.flip)
  IN [builds |-> Cardinality(DOMAIN e.loading_chart) >= 2,
      noFallback |-> q.slope = <<0, 0>> \/ q.ymax <= e.waterlvl + e.h_dry,
      allowed |-> q.grading \in DOMAIN e.design_type,
      lowDry |-> Min(YsOf(q.sec)) - e.waterlvl >= e.h_dry,
      builtDry |-> q.ymax - e.waterlvl >= e.h_dry,
      rows |-> \A y \in YsOf(q.sec) : HasRow(tchart, y),
      reach |-> \A y \in YsOf(q.sec) :
                  /\ HasRow(tchart, y)
                  /\ Reaches(tchart, ChartRow(tchart, y),
                             XLevel(q.sec, y, loc.flip), q.mass),
      standing |-> q.length_top >= e.required_length]

LastChart ==
  LET e == last.pre["excavator"]
      loc == ExcavatorLoc(e, last.q)
  IN chart_location(e.loading_chart, loc.x, loc.y, loc.flip)

\* C11: in Excavator.install, if for any distinct section elevation no
\* translated chart row exists on the correct side, the call returns false
\* (not an exception), whatever the other elevations, the dry-margin
\* conditions and the slope are.
C11_MissingRowIsFalse ==
  (/\ Installed("excavator")
   /\ \E y \in YsOf(last.q.sec) : ~HasRow(LastChart, y))
     => last.outcome = "False"

\* C12: the Excavator with the single-elevation chart {0: reach [5],
\* payload [10]}, section [(0,0),(4,0),(4,2),(0,2)], dry margin 0 and
\* required length 0: install returns true for mass 8 and false for mass 12.
C12_SingleRowScenario ==
  (/\ Installed("excavator")
   /\ last.pre["excavator"].loading_chart = (0 :> [x |-> <<5>>, w |-> <<10>>])
   /\ last.pre["excavator"].h_dry = 0
   /\ last.pre["excavator"].required_length = 0
   /\ last.q.sec = <<<<0, 0>>, <<4, 0>>, <<4, 2>>, <<0, 2>>>>)
     => /\ last.q.mass = 8 => last.outcome = "True"
        /\ last.q.mass = 12 => last.outcome = "False"

\* C13: Vessel.install returns true exactly when the grading is allowed and
\* waterlvl - (installation_waterdepth + ukc) >= the highest y of the
\* section; with waterlvl 0, installation_waterdepth 3 and ukc 0 it is true
\* for a section top of -4 and false for a section top of -2.
C13_VesselKeelClearance ==
  Installed("vessel") =>
    LET v == last.pre["vessel"]
        top == Max(YsOf(last.q.sec))
        keel == v.waterlvl - (v.installation_waterdepth + v.ukc)
        allowed == last.q.grading \in DOMAIN v.design_type
    IN /\ last.outcome \in {"True", "False"}
       /\ last.outcome = "True" <=> (allowed /\ keel >= top)
       /\ (allowed /\ v.waterlvl = 0 /\ v.installation_waterdepth = 3
             /\ v.ukc = 0)
            => /\ top = -4 => last.outcome = "True"
               /\ top = -2 => last.outcome = "False"

C13_Witness ==
  /\ Installed("vessel")
  /\ last.pre["vessel"].waterlvl = 0
  /\ last.pre["vessel"].installation_waterdepth = 3
  /\ last.q.grading \in DOMAIN last.pre["vessel"].design_type
  /\ Max(YsOf(last.q.sec)) = -4
  /\ Min(YsOf(last.q.sec)) = -6
  /\ last.outcome = "True"

\* the crane, the distance and the selection of the last Crane.install query
LastCrane == last.pre["crane"]

LastCraneDist == MaxDistX(last.q.sec, CraneLoc(LastCrane, last.q).x)

LastCraneSel == CraneSelect(LastCrane.loading_chart, LastCraneDist, last.q.mass)

\* the call neither recursed nor divided by its slope
NoFallback(e, q) == q.slope = <<0, 0>> \/ q.ymax <= e.waterlvl + e.h_dry

\* C14: Crane.install selects the smallest tabulated radius that is >= the
\* maximum horizontal distance from the equipment to a section point, never
\* a smaller one; when no tabulated radius is >= that distance, or no entry
\* at the selected radius has payload >= mass, the maximum payload is minus
\* infinity, so that the payload condition fails.
C14_SmallestCoveringRadius ==
  Installed("crane") =>
    LET chart == LastCrane.loading_chart
        covering == {r \in DOMAIN chart : r >= LastCraneDist}
        least == CHOOSE r \in covering : \A r2 \in covering : r <= r2
        carried == {chart[least][b] : b \in DOMAIN chart[least]}
        fails == \/ covering = {}
                 \/ \A w \in carried : w < last.q.mass
    IN /\ ~fails => /\ LastCraneSel.r = least
                    /\ LastCraneSel.r >= LastCraneDist
                    /\ LastCraneSel.M_max \in carried
                    /\ LastCraneSel.M_max >= last.q.mass
       /\ fails => /\ LastCraneSel.M_max = NegInfinity
                   /\ ~(last.q.mass <= LastCraneSel.M_max)
                   /\ (/\ NoFallback(LastCrane, last.q)
                       /\ Min(YsOf(last.q.sec)) - LastCrane.waterlvl
                            < LastCrane.h_dry)
                        => last.outcome = "False"

\* a radius was selected below the largest one, and the call was decided by
\* the payload
C14_Witness ==
  /\ Installed("crane")
  /\ LastCraneSel.r = 4
  /\ 8 \in DOMAIN LastCrane.loading_chart
  /\ last.outcome = "True"
  /\ Min(YsOf(last.q.sec)) - LastCrane.waterlvl < LastCrane.h_dry

\* the distances at which the sections lie from a crane that locates itself
CraneDistances ==
  {MaxDistX(q.sec, CraneLoc(LastCrane, q).x) :
     q \in [sec : Sections, xmax_top : XmaxTops, ymax : {0},
            given : {FALSE}]}

\* the payload selected for the last query's mass at distance d
MMaxAt(d) == CraneSelect(LastCrane.loading_chart, d, last.q.mass).M_max

\* the largest payload tabulated at radius r
RowMax(chart, r) == Max({chart[r][b] : b \in DOMAIN chart[r]})

\* reach and payload trade off: a larger radius never carries more
TradesOff(chart) ==
  \A r1, r2 \in DOMAIN chart : r1 <= r2 => RowMax(chart, r2) <= RowMax(chart, r1)

\* C15 as stated: for a fixed loading chart and mass, increasing the maximum
\* horizontal distance between the equipment and the section never increases
\* the selected payload capacity M_max.
C15_MonotoneAsStated ==
  Installed("crane") =>
    \A d \in CraneDistances : d >= LastCraneDist => MMaxAt(d) <= LastCraneSel.M_max

\* C15 (amended): for a fixed loading chart whose largest payload per radius
\* does not grow with the radius, and a fixed mass, increasing the maximum
\* horizontal distance never increases the selected payload capacity M_max.
C15_Monotone ==
  (Installed("crane") /\ TradesOff(LastCrane.loading_chart)) =>
    \A d \in CraneDistances : d >= LastCraneDist => MMaxAt(d) <= LastCraneSel.M_max

\* a farther section of the same chart selects a strictly smaller payload
C15_Witness ==
  /\ Installed("crane")
  /\ TradesOff(LastCrane.loading_chart)
  /\ LastCraneSel.M_max > NegInfinity
  /\ \E d \in CraneDistances :
       /\ d > LastCraneDist
       /\ MMaxAt(d) < LastCraneSel.M_max
       /\ MMaxAt(d) > NegInfinity

\* the terms of the crane's direct test for the last Crane.install query: h
\* is the gap between the equipment and the section top, hmax2 the square
\* of the vertical reach of the selected boom at the selected radius
CraneTerms ==
  LET e == LastCrane
      q == last.q
      sel == LastCraneSel
  IN [allowed |-> q.grading \in DOMAIN e.design_type,
      lowDry |-> Min(YsOf(q.sec)) - e.waterlvl >= e.h_dry,
      builtDry |-> q.ymax - e.waterlvl >= e.h_dry,
      payload |-> q.mass <= sel.M_max,
      h |-> CraneLoc(e, q).y - Max(YsOf(q.sec)),
      hmax2 |-> sel.l_boom * sel.l_boom - sel.r * sel.r,
      standing |-> q.length_top >= e.required_length]

\* C16: without slope fallback, Crane.install returns true exactly when the
\* grading is allowed and (the lowest section point is at least h_dry above
\* the water, or the built elevation is at least h_dry above the water and
\* mass <= M_max and yloc_equip - max section y <= hmax and
\* length_top >= required_length), with hmax^2 = boomLength^2 - radius^2
\* for the selected entry.
C16_CraneDirectTest ==
  (Installed("crane") /\ NoFallback(LastCrane, last.q)) =>
    LET t == CraneTerms IN
    /\ last.outcome \in {"True", "False"}
    /\ last.outcome = "True" <=>
         (/\ t.allowed
          /\ \/ t.lowDry
             \/ /\ t.builtDry
                /\ t.payload
                /\ t.hmax2 >= 0
                /\ (t.h <= 0 \/ t.h * t.h <= t.hmax2)
                /\ t.standing)

\* a wet section within the payload and the standing length, refused only
\* because its top lies deeper below the crane than the boom reaches
C16_Witness ==
  /\ Installed("crane")
  /\ NoFallback(LastCrane, last.q)
  /\ CraneTerms.allowed /\ ~CraneTerms.lowDry /\ CraneTerms.builtDry
  /\ CraneTerms.payload /\ CraneTerms.standing
  /\ CraneTerms.h * CraneTerms.h > CraneTerms.hmax2
  /\ last.outcome = "False"

\* the mirror image of a section, of polygon vertices and of a translated
\* chart across the vertical line x = a
MirrorPoints(points, a) ==
  [i \in DOMAIN points |-> <<2 * a - points[i][1], points[i][2]>>]

MirrorChart(tchart, a) ==
  [k \in DOMAIN tchart |->
     [x |-> [i \in DOMAIN tchart[k].x |-> 2 * a - tchart[k].x[i]],
      w |-> tchart[k].w]]

\* C17: mirroring is involutive and side-symmetric for the Excavator: the
\* envelope (polygon and translated chart) built for a section at x >= 0,
\* reflected together with the section across x = equipment-x, is the
\* envelope built for the mirrored section at x <= 0, with the same install
\* result; and reflecting an envelope twice around the same equipment x
\* gives back the original envelope.
C17_MirroringInvolutive ==
  (/\ Installed("excavator")
   /\ ~last.q.given
   /\ \A x \in XsOf(last.q.sec) : x >= 0
   /\ PolygonBuilds(ChartPointCount(last.pre["excavator"].loading_chart)))
     => LET e == last.pre["excavator"]
            loc == ExcavatorLoc(e, last.q)
            poly == loading_polygon(e.loading_chart, loc.x, loc.y, loc.flip)
            qm == [last.q EXCEPT !.sec = MirrorPoints(last.q.sec, loc.x)]
            locm == ExcavatorLoc(e, qm)
        IN /\ rotate_loading_chart(rotate_loading_chart(poly, loc.x), loc.x)
                = poly
           /\ (\A x \in XsOf(qm.sec) : x <= 0)
                => /\ loading_polygon(e.loading_chart, locm.x, locm.y,
                                      locm.flip) = MirrorPoints(poly, loc.x)
                   /\ chart_location(e.loading_chart, locm.x, locm.y,
                                     locm.flip) = MirrorChart(LastChart, loc.x)
                   /\ ExcavatorInstall("excavator", e, qm, 0).outcome
                        = last.outcome

\* the last call is an install of land equipment that resolved its own
\* location
LandLocated ==
  /\ last.op = "install"
  /\ last.obj \in {"excavator", "crane"}
  /\ ~last.q.given
  /\ last.calls # <<>>

\* the last call is a Barge.install that resolved the location of its
\* instrument and handed it over
BargeLocated ==
  /\ last.op = "install"
  /\ last.obj \in {"barge_crane", "barge_excavator"}
  /\ Allowed(Owner, last.q.grading)
  /\ Clearance(TheBarge, last.q.sec)
  /\ last.q.slope[1] # 0
  /\ last.calls # <<>>

OnTheRight == \A x \in XsOf(last.q.sec) : x >= 0

\* the sum of the offsets a Barge passes to location_equipment
BargeOffsets ==
  ((Max(YsOf(last.q.sec)) - YInstallationWaterdepth(TheBarge)) * last.q.slope[2])
     \div last.q.slope[1]
  + TheBarge.margin_x + TheInstrument.offset

\* the flag location_equipment returns to the Barge of the last call
BargeFlag ==
  location_equipment(BargeOffsets, XTop(last.q.sec), last.q.sec, TRUE,
                     YInstallationWaterdepth(TheBarge), TheBarge.height,
                     0).flip

\* C18 as stated: location_equipment for land equipment returns
\* mirror-flag = true whenever every x-coordinate of the section is
\* non-negative; for a Barge the y-location is
\* y_installation_waterdepth + height and the horizontal side convention is
\* the opposite one.
C18_MirrorOnTheRight ==
  /\ (LandLocated /\ OnTheRight) => last.calls[1].flip = TRUE
  /\ BargeLocated =>
       /\ last.calls[1].yloc
            = YInstallationWaterdepth(TheBarge) + TheBarge.height
       /\ OnTheRight => BargeFlag = FALSE

\* C18 (amended): location_equipment for land equipment returns
\* mirror-flag = false and x = xpoint - offsets whenever every x-coordinate
\* of the section is non-negative, and mirror-flag = true and
\* x = -xpoint + offsets otherwise, with y = ymax; for a Barge the
\* y-location is y_installation_waterdepth + height and the side convention
\* is the opposite one: mirror-flag = true and x = xpoint + offsets when
\* every x-coordinate is non-negative, mirror-flag = false and
\* x = -xpoint - offsets otherwise.
C18_MirrorOnTheLeft ==
  /\ LandLocated =>
       LET f == last.calls[1]
           offsets == last.pre[last.obj].offset
       IN /\ f.flip = ~OnTheRight
          /\ f.yloc = last.q.ymax
          /\ f.xloc = IF OnTheRight THEN last.q.xmax_top - offsets
                      ELSE -last.q.xmax_top + offsets
  /\ BargeLocated =>
       LET f == last.calls[1] IN
       /\ f.yloc = YInstallationWaterdepth(TheBarge) + TheBarge.height
       /\ f.xloc = IF OnTheRight THEN XTop(last.q.sec) + BargeOffsets
                   ELSE -XTop(last.q.sec) - BargeOffsets
       /\ BargeFlag = OnTheRight

\* land equipment served a section on the right side without mirroring
C18_Witness ==
  /\ LandLocated
  /\ OnTheRight
  /\ last.obj = "excavator"
  /\ last.calls[1].flip = FALSE
  /\ last.outcome = "True"

\* C19: diagnostic rendering never affects the decision: for every
\* equipment kind and all inputs, install called with plot=True returns the
\* same boolean as install called with plot=False, and rendering changes no
\* state that a later install reads.
C19_PlotIsDecisionIrrelevant ==
  (last.op = "install" /\ last.q.plot) =>
    LET quiet == InstallOf(last.pre, last.obj, [last.q EXCEPT !.plot = FALSE])
    IN /\ last.outcome = quiet.outcome
       /\ eq = quiet.eq

\* a rendered Excavator.install that went through the slope fallback
C19_Witness ==
  /\ Installed("excavator")
  /\ last.q.plot
  /\ Len(last.calls) = 2
  /\ last.outcome = "True"

\* C20: within the reach engine no geometry- or capability-related
\* condition is fatal: for every section, mass, built elevation, top length
\* and slope (slopes with vertical component 0 and Barge.install called
\* with slope (0,0) included), install of Excavator, Crane and Barge ends
\* with a boolean, not with an error.
C20_InstallEndsWithBoolean ==
  (last.op = "install" /\ last.obj \in {"excavator", "crane"} \cup Barges)
     => last.outcome \in {"True", "False"}

\* C21: when the grading class is absent from the capability mapping,
\* Excavator.install and Crane.install reject immediately: the false result
\* is produced before any location resolution, envelope construction, chart
\* lookup or slope-fallback self-call is performed (the call ends with
\* false, and the only frame it logs is its own).
C21_AbsentGradingRejectsFirst ==
  (/\ last.op = "install"
   /\ last.obj \in {"excavator", "crane"}
   /\ ~Allowed(last.pre[last.obj], last.q.grading))
     => /\ last.outcome = "False"
        /\ Len(last.calls) <= 1

\* C22: constructing a Barge produces a new capability mapping with exactly
\* the grading keys of the mounted instrument, where cost = instrument cost
\* + extra_cost, CO2 is unchanged and production_rate = instrument rate -
\* downtime_production; it leaves the instrument's own design_type,
\* mobilisation_cost and equipment_cost unchanged; and the Barge's
\* mobilisation and hourly cost/CO2 are the sums of the platform's and the
\* instrument's figures.
C22_BargeDerivesMapping ==
  last.op = "__init__" =>
    LET o == last.q.other
        b == last.made
    IN /\ last.outcome = "returned"
       /\ DOMAIN b.design_type = DOMAIN o.design_type
       /\ \A g \in DOMAIN o.design_type :
            /\ b.design_type[g].cost = o.design_type[g].cost + last.q.extra_cost
            /\ b.design_type[g].CO2 = o.design_type[g].CO2
            /\ b.design_type[g].production_rate
                 = o.design_type[g].production_rate - last.q.downtime_production
       /\ last.other = o
       /\ \A k \in {"cost", "CO2"} :
            /\ b.mobilisation_cost[k] = last.q.own[k] + o.mobilisation_cost[k]
            /\ b.equipment_cost[k] = last.q.own[k] + o.equipment_cost[k]

\* C23: after construction, over any sequence of install, get_price and
\* get_production_rate calls, the only equipment attributes that ever change
\* are the waterlvl and h_dry of an instrument mounted on a Barge; every
\* other attribute of every equipment object stays as constructed.
C23_OnlyOverridesChange ==
  \A o \in Objects :
     /\ DOMAIN eq[o] = DOMAIN built[o]
     /\ \A a \in DOMAIN built[o] :
          (eq[o][a] # built[o][a])
             => /\ a \in {"waterlvl", "h_dry"}
                /\ \E b \in Barges : built[b].instance = o

\* C24: PlateFeeder.install returns true exactly when the grading is allowed
\* and the working level is at least h_dry and the section's top elevation
\* does not exceed the working level plus top_installation, where the
\* working level is the supplied level or, when none is supplied,
\* max(min section y, ymax) - waterlvl; there is no recursive fallback.
C24_FeederDirectTest ==
  Installed("feeder") =>
    LET e == last.pre["feeder"]
        q == last.q
        level == IF q.levelGiven THEN q.level
                 ELSE Max({Min(YsOf(q.sec)), q.ymax}) - e.waterlvl
    IN /\ last.outcome \in {"True", "False"}
       /\ last.outcome = "True" <=>
            (/\ q.grading \in DOMAIN e.design_type
             /\ level >= e.h_dry
             /\ Max(YsOf(q.sec)) <= level + e.top_installation)
       /\ last.calls = <<>>

\* a section on an allowed grading and a dry working level, refused only
\* because its top lies above the lift height
C24_Witness ==
  /\ Installed("feeder")
  /\ last.q.grading \in DOMAIN last.pre["feeder"].design_type
  /\ IF last.q.levelGiven
        THEN last.q.level >= last.pre["feeder"].h_dry
        ELSE Max({Min(YsOf(last.q.sec)), last.q.ymax}) - last.pre["feeder"].waterlvl
               >= last.pre["feeder"].h_dry
  /\ last.outcome = "False"

\* C25: Truck.install returns true exactly when the grading is allowed and
\* max(min section y, ymax) - waterlvl >= h_dry and
\* length_top >= required_length; no reach geometry and no fallback are
\* involved.
C25_TruckDirectTest ==
  Installed("truck") =>
    LET e == last.pre["truck"]
        q == last.q
    IN /\ last.outcome \in {"True", "False"}
       /\ last.outcome = "True" <=>
            (/\ q.grading \in DOMAIN e.design_type
             /\ Max({Min(YsOf(q.sec)), q.ymax}) - e.waterlvl >= e.h_dry
             /\ q.length_top >= e.required_length)
       /\ last.calls = <<>>

\* an allowed grading on a dry level, refused because the top of the layer
\* is shorter than the truck needs
C25_Witness ==
  /\ Installed("truck")
  /\ last.q.grading \in DOMAIN last.pre["truck"].design_type
  /\ Max({Min(YsOf(last.q.sec)), last.q.ymax}) - last.pre["truck"].waterlvl
       >= last.pre["truck"].h_dry
  /\ last.q.length_top < last.pre["truck"].required_length
  /\ last.outcome = "False"

\* the direct test of the last Excavator or Crane query came out false
DirectTestFailed ==
  IF last.obj = "excavator"
  THEN LET t == ExcavatorTerms IN
       ~(t.allowed /\ (t.lowDry \/ (t.builtDry /\ t.reach /\ t.standing)))
  ELSE LET t == CraneTerms IN
       ~(/\ t.allowed
         /\ \/ t.lowDry
            \/ /\ t.builtDry
               /\ t.payload
               /\ t.hmax2 >= 0
               /\ (t.h <= 0 \/ t.h * t.h <= t.hmax2)
               /\ t.standing)

\* the case of the slope fallback: a direct query on the Excavator or the
\* Crane above the dry margin, on a non-zero slope, refused by the direct test
FallbackCase ==
  /\ last.op = "install"
  /\ last.obj \in {"excavator", "crane"}
  /\ last.q.ymax > last.pre[last.obj].waterlvl + last.pre[last.obj].h_dry
  /\ last.q.slope # <<0, 0>>
  /\ DirectTestFailed

\* C26: when ymax > waterlvl + h_dry, the direct test failed and
\* slope # (0,0), Excavator.install and Crane.install call themselves with
\* ymax' = waterlvl + h_dry,
\* xmax_top' = xmax_top - (H/V) * (ymax - (waterlvl + h_dry)),
\* length_top' = 2 * |xmax_top'|, the same section, mass and slope and a
\* freshly resolved location, and the value returned to the caller is the
\* result of that call.
C26_FallbackReinvokes ==
  FallbackCase =>
    LET e == last.pre[last.obj]
        q == last.q
    IN /\ Len(last.calls) = 2
       /\ LET sub == last.calls[2]
              x == q.xmax_top
                     - (q.slope[2] \div q.slope[1])
                         * (q.ymax - (e.waterlvl + e.h_dry))
              q2 == [q EXCEPT !.ymax = e.waterlvl + e.h_dry,
                              !.xmax_top = x, !.length_top = 2 * Abs(x),
                              !.given = FALSE, !.xloc = 0, !.yloc = 0,
                              !.plot = FALSE]
          IN /\ sub.obj = last.obj
             /\ sub.depth = 1
             /\ sub.ymax = e.waterlvl + e.h_dry
             /\ sub.xmax_top = x
             /\ sub.length_top = 2 * Abs(x)
             /\ sub.slope = q.slope
             /\ ~sub.given
             /\ last.outcome =
                  IF last.obj = "excavator"
                  THEN ExcavatorInstall("excavator", e, q2, 1).outcome
                  ELSE CraneInstall("crane", e, q2, 1).outcome

\* C27: in Crane.install, among the chart entries at the selected radius
\* with payload >= mass a single entry is picked, the one with the maximum
\* payload, and both M_max and the boom length used for
\* hmax = sqrt(boomLength^2 - radius^2) are those of that same entry.
C27_SingleEntrySelected ==
  (/\ last.op = "install"
   /\ last.obj = "crane"
   /\ LastCraneSel.M_max # NegInfinity)
     => LET chart == LastCrane.loading_chart
            sel == LastCraneSel
            entries == {b \in DOMAIN chart[sel.r] : chart[sel.r][b] >= last.q.mass}
        IN /\ sel.l_boom \in entries
           /\ sel.M_max = chart[sel.r][sel.l_boom]
           /\ \A b \in entries : chart[sel.r][b] <= sel.M_max

\* C28: in Excavator.install and Crane.install the slope-fallback self-call
\* happens at most once per top-level query: the recursive call receives
\* ymax = waterlvl + h_dry, so its own guard is false and the recursion
\* depth never exceeds 1, whatever the slope and the height above the
\* margin.
C28_FallbackAtMostOnce ==
  last.op = "install" =>
    /\ last.outcome # "RecursionError"
    /\ \A i \in DOMAIN last.calls :
         /\ last.calls[i].depth <= 1
         /\ last.calls[i].depth = 1
              => /\ last.calls[i].ymax
                      = last.calls[i].waterlvl + last.calls[i].h_dry
                 /\ \A j \in DOMAIN last.calls :
                       (j > i /\ last.calls[j].obj = last.calls[i].obj)
                          => last.calls[j].depth = 0
    /\ last.obj \in {"excavator", "crane"} => Len(last.calls) <= 2

\* a query above the margin that fell back once down a slope and was
\* refused again by the recursive call, which did not fall back further
C28_Witness ==
  /\ last.op = "install"
  /\ last.obj \in {"excavator", "crane"}
  /\ last.q.slope[1] # 0
  /\ last.q.ymax > last.pre[last.obj].waterlvl + last.pre[last.obj].h_dry
  /\ Len(last.calls) = 2
  /\ last.calls[2].depth = 1
  /\ last.outcome = "False"

\* C29: get_production_rate changes state on its error path: for a grading
\* without production_rate the first call writes production_rate = 1 into
\* the equipment's design_type and then raises UserWarning; every later
\* call for that grading on the same equipment returns 1 without raising.
C29_FirstCallWritesRate ==
  last.op = "get_production_rate" =>
    LET o == last.obj
        g == last.q.grading
        before == last.pre[o].design_type[g]
        after == eq[o].design_type[g]
    IN /\ "production_rate" \notin DOMAIN before
          => /\ last.outcome = "UserWarning"
             /\ "production_rate" \in DOMAIN after
             /\ after.production_rate = 1
       /\ ("production_rate" \in DOMAIN before
             /\ "production_rate" \notin DOMAIN built[o].design_type[g])
          => /\ last.outcome = "returned"
             /\ last.value = 1
             /\ after = before

\* a later call for a grading constructed without a rate: it returns 1
C29_Witness ==
  /\ last.op = "get_production_rate"
  /\ "production_rate" \notin DOMAIN built[last.obj].design_type[last.q.grading]
  /\ "production_rate" \in DOMAIN last.pre[last.obj].design_type[last.q.grading]
  /\ last.outcome = "returned"
  /\ last.value = 1

\* the crane's own answer to the delegation made under the clearance test
CraneClearanceOutcome ==
  LET loc == SlopeLocation(TheBarge, TheInstrument, last.q) IN
  CraneInstall("crane", Reparent(TheBarge, TheInstrument),
               Delegated(TheBarge, last.q, loc.x, loc.y), 0).outcome

\* C30: for a Barge with a mounted Crane, whenever the grading is in the
\* crane's design_type and the slope's vertical component is non-zero,
\* Barge.install returns true for every section, mass and clearance
\* situation: the unconditional-true branch also runs after the delegation
\* made when the clearance is met, and overwrites the crane's own result.
C30_BargeCraneAlwaysTrue ==
  (/\ Installed("barge_crane")
   /\ last.q.grading \in DOMAIN TheInstrument.design_type
   /\ last.q.slope[1] # 0)
     => /\ last.outcome = "True"
        /\ Clearance(TheBarge, last.q.sec)
             => /\ Len(last.calls) = 2
                /\ last.calls[1].obj = "crane"
                /\ last.calls[2].obj = "crane"

\* the clearance is met, the crane refuses the section in the delegated
\* call, and the barge still answers true
C30_Witness ==
  /\ Installed("barge_crane")
  /\ last.q.grading \in DOMAIN TheInstrument.design_type
  /\ last.q.slope[1] # 0
  /\ Clearance(TheBarge, last.q.sec)
  /\ CraneClearanceOutcome = "False"
  /\ last.outcome = "True"

====
